---- MODULE Spec2Model ----
(***************************************************************************)
(* Limit order book with price-time priority matching (orderbook.h,        *)
(* orderbook.cpp).  The book is the three containers of class OrderBook:   *)
(* bids_ and asks_ (price -> FIFO list of orders) and orders_ (order id -> *)
(* OrderEntry).  Every public method is one atomic action; the methods     *)
(* themselves are operators over a book record so that laws relating two   *)
(* call sequences can be stated on any reachable book.                     *)
(***************************************************************************)
EXTENDS Integers, Sequences, FiniteSets, TLC

\* ------------------------------------------------------------------ bounds
MaxId == 3
MaxPrice == 2
MaxQty == 2
\* Quantity wraps std::uint32_t; the model's unsigned integers have
\* QuantityBits bits (quantities are below 2^QuantityBits).
QuantityBits == 2
\* Price wraps std::int32_t; the model's signed integers have PriceBits bits.
PriceBits == 3
\* The order ids that appear in the lines of a CSV file.
MaxLineId == 2

OrderIds == 1..MaxId
Prices == 1..MaxPrice
Quantities == 1..MaxQty

\* ------------------------------------------------------------------ types
OrderSide == {"BUY", "SELL"}
OrderType == {"GTC", "FOK"}

\* What a read of a container that was already destroyed can do: the freed
\* std::list still shows its last size (0), or the access faults.
StaleOutcomes == {"zero", "fault"}

Order(id, side, type, price, quantity) ==
    [id |-> id, side |-> side, type |-> type, price |-> price,
     initialQuantity |-> quantity, remainingQuantity |-> quantity]

OrderModifier(id, side, type, price, quantity) ==
    [id |-> id, side |-> side, type |-> type, price |-> price, quantity |-> quantity]

\* Fault: the new order takes the type carried by the request.
toOrderPointerOwnType(m, type) == Order(m.id, m.side, m.type, m.price, m.quantity)

toOrderPointer(m, type) == Order(m.id, m.side, type, m.price, m.quantity)

\* Order::fill throws when asked for more than is left.
fillThrows(o, quantity) == quantity > o.remainingQuantity

\* Fault: a fill also lowers the initial quantity.
fillShrinksInitial(o, quantity) ==
    [o EXCEPT !.remainingQuantity = @ - quantity, !.initialQuantity = @ - quantity]

fill(o, quantity) == [o EXCEPT !.remainingQuantity = @ - quantity]

isFilled(o) == o.remainingQuantity = 0

TradeInfo(o, quantity) == [orderId |-> o.id, price |-> o.price, quantity |-> quantity]

\* Fault: each leg names the order of the other side.
TradeLegsSwapped(bid, ask, quantity) ==
    [bid |-> [orderId |-> ask.id, price |-> ask.price, quantity |-> quantity],
     ask |-> [orderId |-> bid.id, price |-> bid.price, quantity |-> quantity]]

\* Fault: the ask leg records what the ask order had left.
TradeAskLegRemainder(bid, ask, quantity) ==
    [bid |-> [orderId |-> bid.id, price |-> bid.price, quantity |-> quantity],
     ask |-> [orderId |-> ask.id, price |-> ask.price, quantity |-> ask.remainingQuantity]]

\* Fault: the trade records what the bid order had left, not what was traded.
TradeBidRemainder(bid, ask, quantity) ==
    [bid |-> [orderId |-> bid.id, price |-> bid.price, quantity |-> bid.remainingQuantity],
     ask |-> [orderId |-> ask.id, price |-> ask.price, quantity |-> bid.remainingQuantity]]

\* Fault: both legs carry the price of the ask order.
TradeSinglePrice(bid, ask, quantity) ==
    [bid |-> [orderId |-> bid.id, price |-> ask.price, quantity |-> quantity],
     ask |-> [orderId |-> ask.id, price |-> ask.price, quantity |-> quantity]]

Trade(bid, ask, quantity) == [bid |-> TradeInfo(bid, quantity), ask |-> TradeInfo(ask, quantity)]

\* Fault: the entry is stored with an iterator that names no node.
OrderEntryNoLocation(o) == [order_ |-> o, location |-> 0]

\* OrderEntry: the shared order object and the iterator to its list node; the
\* node is named by the id of the order it was created for.
OrderEntry(o) == [order_ |-> o, location |-> o.id]

\* ------------------------------------------------------------------ containers
SetMax(S) == CHOOSE x \in S : \A y \in S : y <= x
SetMin(S) == CHOOSE x \in S : \A y \in S : x <= y
\* Fault: the trade quantity is what the bid has left, whatever the ask has.
MinOfFirst(a, b) == a

\* Fault: std::max in place of std::min.
MaxOfInstead(a, b) == IF b < a THEN a ELSE b
MinOf(a, b) == IF b < a THEN b ELSE a

MapErase(m, k) == [p \in DOMAIN m \ {k} |-> m[p]]
MapPut(m, k, v) == [p \in DOMAIN m \cup {k} |-> IF p = k THEN v ELSE m[p]]

\* Fault: the head of the list is unlinked, whatever the iterator names.
ListErasePopFront(l, location) == Tail(l)

\* std::list::erase(iterator): unlink the node the iterator names.
ListErase(l, location) == SelectSeq(l, LAMBDA o : o.id # location)

\* bids_ is ordered by std::greater, asks_ by std::less: begin() is the best.
\* Fault: bids_ ordered like asks_ (std::less), so begin() is the lowest bid.
BestBidLowest(b) == SetMin(DOMAIN b.bids)

BestBid(b) == SetMax(DOMAIN b.bids)
BestAsk(b) == SetMin(DOMAIN b.asks)

\* bids, asks, orders: the members bids_, asks_, orders_ of OrderBook.
\* lastOp, prev, trades: the last public call, the book it was made on and the
\* trades it returned.  log: the book as it was before each of those trades.
\* staleRead: the call read a level it had erased.  status: the process.
VARIABLES bids, asks, orders, lastOp, prev, trades, log, staleRead, status

vars == <<bids, asks, orders, lastOp, prev, trades, log, staleRead, status>>

Book == [bids |-> bids, asks |-> asks, orders |-> orders]

EmptyMap == [p \in {} |-> <<>>]

\* ------------------------------------------------------------------ OrderBook
\* An exception leaves the callee with the book as it is at the throw; the
\* record of the call is marked and every caller up to the catch passes it on.
Raise(b) == [x \in DOMAIN b \cup {"exception"} |-> IF x = "exception" THEN TRUE ELSE b[x]]

Threw(r) == "exception" \in DOMAIN r /\ r.exception

\* The order object is shared by its list node and its index entry: a fill
\* through the list's pointer is seen through the index entry's pointer.
SharedFill(ords, o) ==
    IF o.id \in DOMAIN ords THEN [ords EXCEPT ![o.id].order_ = o] ELSE ords

\* Fault: the two comparators exchanged.
canMatchSwapped(b, side, price) ==
    IF side = "BUY"
    THEN IF DOMAIN b.asks = {} THEN FALSE ELSE price <= BestAsk(b)
    ELSE IF DOMAIN b.bids = {} THEN FALSE ELSE price >= BestBid(b)

\* Fault: the limit has to be strictly better than the best opposite price.
canMatchStrict(b, side, price) ==
    IF side = "BUY"
    THEN IF DOMAIN b.asks = {} THEN FALSE ELSE price > BestAsk(b)
    ELSE IF DOMAIN b.bids = {} THEN FALSE ELSE price < BestBid(b)

canMatch(b, side, price) ==
    IF side = "BUY"
    THEN IF DOMAIN b.asks = {} THEN FALSE ELSE price >= BestAsk(b)
    ELSE IF DOMAIN b.bids = {} THEN FALSE ELSE price <= BestBid(b)

\* Fault: the lookup is made with operator[], which inserts an empty entry
\* for an id that is not there.
cancelOrderDefaultInsert(b, orderId) ==
    IF orderId \notin DOMAIN b.orders
    THEN [b EXCEPT !.orders = MapPut(b.orders, orderId, [order_ |-> "nullptr", location |-> 0])]
    ELSE LET entry == b.orders[orderId]
             orderSide == entry.order_.side
             orderPrice == entry.order_.price
             erased == MapErase(b.orders, orderId)
             removeFromSide(sideMap) ==
                 LET l == ListErase(sideMap[orderPrice], entry.location)
                 IN  IF l = <<>> THEN MapErase(sideMap, orderPrice)
                     ELSE [sideMap EXCEPT ![orderPrice] = l]
         IN  IF orderSide = "SELL"
             THEN [b EXCEPT !.orders = erased, !.asks = removeFromSide(b.asks)]
             ELSE [b EXCEPT !.orders = erased, !.bids = removeFromSide(b.bids)]

\* Fault: the list node is unlinked but the entry stays in orders_.
cancelOrderKeepsIndex(b, orderId) ==
    IF orderId \notin DOMAIN b.orders
    THEN b
    ELSE LET entry == b.orders[orderId]
             orderSide == entry.order_.side
             orderPrice == entry.order_.price
             removeFromSide(sideMap) ==
                 IF orderPrice \notin DOMAIN sideMap THEN sideMap
                 ELSE LET l == ListErase(sideMap[orderPrice], entry.location)
                      IN  IF l = <<>> THEN MapErase(sideMap, orderPrice)
                          ELSE [sideMap EXCEPT ![orderPrice] = l]
         IN  IF orderSide = "SELL"
             THEN [b EXCEPT !.asks = removeFromSide(b.asks)]
             ELSE [b EXCEPT !.bids = removeFromSide(b.bids)]

\* Fault: the whole level is erased, whatever else it holds.
cancelOrderErasesLevel(b, orderId) ==
    IF orderId \notin DOMAIN b.orders
    THEN b
    ELSE LET entry == b.orders[orderId]
             orderSide == entry.order_.side
             orderPrice == entry.order_.price
             erased == MapErase(b.orders, orderId)
             atThrows == orderPrice \notin DOMAIN (IF orderSide = "SELL" THEN b.asks ELSE b.bids)
         IN  IF atThrows THEN Raise([b EXCEPT !.orders = erased])
             ELSE IF orderSide = "SELL"
             THEN [b EXCEPT !.orders = erased, !.asks = MapErase(b.asks, orderPrice)]
             ELSE [b EXCEPT !.orders = erased, !.bids = MapErase(b.bids, orderPrice)]

\* Fault: the level is left in the map when its list becomes empty.
cancelOrderKeepsLevel(b, orderId) ==
    IF orderId \notin DOMAIN b.orders
    THEN b
    ELSE LET entry == b.orders[orderId]
             orderSide == entry.order_.side
             orderPrice == entry.order_.price
             erased == MapErase(b.orders, orderId)
             removeFromSide(sideMap) ==
                 [sideMap EXCEPT ![orderPrice] = ListErase(@, entry.location)]
         IN  IF orderSide = "SELL"
             THEN [b EXCEPT !.orders = erased, !.asks = removeFromSide(b.asks)]
             ELSE [b EXCEPT !.orders = erased, !.bids = removeFromSide(b.bids)]

\* sideMap.at(orderPrice) throws std::out_of_range when the side has no level
\* at that price; orders_.erase has been done by then.
cancelOrder(b, orderId) ==
    IF orderId \notin DOMAIN b.orders
    THEN b
    ELSE LET entry == b.orders[orderId]
             orderSide == entry.order_.side
             orderPrice == entry.order_.price
             erased == MapErase(b.orders, orderId)
             removeFromSide(sideMap) ==
                 LET l == ListErase(sideMap[orderPrice], entry.location)
                 IN  IF l = <<>> THEN MapErase(sideMap, orderPrice)
                     ELSE [sideMap EXCEPT ![orderPrice] = l]
             atThrows == orderPrice \notin DOMAIN (IF orderSide = "SELL" THEN b.asks ELSE b.bids)
         IN  IF atThrows THEN Raise([b EXCEPT !.orders = erased])
             ELSE IF orderSide = "SELL"
             THEN [b EXCEPT !.orders = erased, !.asks = removeFromSide(b.asks)]
             ELSE [b EXCEPT !.orders = erased, !.bids = removeFromSide(b.bids)]

\* Fault: an order that is filled in part goes to the back of its level.
MatchStepRequeue(m, bidPrice, askPrice) ==
    LET bid == Head(m.bids[bidPrice])
        ask == Head(m.asks[askPrice])
        tradeQuantity == MinOf(bid.remainingQuantity, ask.remainingQuantity)
        bidF == fill(bid, tradeQuantity)
        askF == fill(ask, tradeQuantity)
        bidList == IF isFilled(bidF) THEN Tail(m.bids[bidPrice])
                   ELSE Tail(m.bids[bidPrice]) \o <<bidF>>
        askList == IF isFilled(askF) THEN Tail(m.asks[askPrice])
                   ELSE Tail(m.asks[askPrice]) \o <<askF>>
        ords1 == IF isFilled(bidF) THEN MapErase(m.orders, bidF.id)
                 ELSE SharedFill(m.orders, bidF)
        ords2 == IF isFilled(askF) THEN MapErase(ords1, askF.id)
                 ELSE SharedFill(ords1, askF)
        bidFilled == [m EXCEPT !.bids[bidPrice] = <<bidF>> \o Tail(@),
                               !.orders = SharedFill(@, bidF)]
    IN  IF fillThrows(bid, tradeQuantity) THEN Raise(m)
        ELSE IF fillThrows(ask, tradeQuantity) THEN Raise(bidFilled)
        ELSE
        [m EXCEPT
           !.bids = IF bidList = <<>> THEN MapErase(m.bids, bidPrice)
                    ELSE [m.bids EXCEPT ![bidPrice] = bidList],
           !.asks = IF askList = <<>> THEN MapErase(m.asks, askPrice)
                    ELSE [m.asks EXCEPT ![askPrice] = askList],
           !.orders = ords2,
           !.trades = Append(m.trades, Trade(bid, ask, tradeQuantity)),
           !.log = Append(m.log, [bids |-> m.bids, asks |-> m.asks])]

\* One pass of the inner while loop body (orderbook.cpp 82-126) on the heads of
\* the two levels bound by the outer loop.
MatchStep(m, bidPrice, askPrice) ==
    LET bid == Head(m.bids[bidPrice])
        ask == Head(m.asks[askPrice])
        tradeQuantity == MinOf(bid.remainingQuantity, ask.remainingQuantity)
        bidF == fill(bid, tradeQuantity)
        askF == fill(ask, tradeQuantity)
        bidList == IF isFilled(bidF) THEN Tail(m.bids[bidPrice])
                   ELSE <<bidF>> \o Tail(m.bids[bidPrice])
        askList == IF isFilled(askF) THEN Tail(m.asks[askPrice])
                   ELSE <<askF>> \o Tail(m.asks[askPrice])
        ords1 == IF isFilled(bidF) THEN MapErase(m.orders, bidF.id)
                 ELSE SharedFill(m.orders, bidF)
        ords2 == IF isFilled(askF) THEN MapErase(ords1, askF.id)
                 ELSE SharedFill(ords1, askF)
        bidFilled == [m EXCEPT !.bids[bidPrice] = <<bidF>> \o Tail(@),
                               !.orders = SharedFill(@, bidF)]
    IN  IF fillThrows(bid, tradeQuantity) THEN Raise(m)
        ELSE IF fillThrows(ask, tradeQuantity) THEN Raise(bidFilled)
        ELSE
        [m EXCEPT
           !.bids = IF bidList = <<>> THEN MapErase(m.bids, bidPrice)
                    ELSE [m.bids EXCEPT ![bidPrice] = bidList],
           !.asks = IF askList = <<>> THEN MapErase(m.asks, askPrice)
                    ELSE [m.asks EXCEPT ![askPrice] = askList],
           !.orders = ords2,
           !.trades = Append(m.trades, Trade(bid, ask, tradeQuantity)),
           !.log = Append(m.log, [bids |-> m.bids, asks |-> m.asks])]

\* The inner loop `while (bids.size() && asks.size())`.  bids and asks are
\* references bound before the loop; once the level was erased from its map
\* the reference dangles and the size() in the loop condition reads a
\* destroyed list.
\* staleRead records that this happened; the value read is then the
\* destroyed list's last size, 0, which leaves the loop (the other outcome, a
\* fault, ends the process and is taken by the calling action).
RECURSIVE MatchLevel(_, _, _)
MatchLevel(m, bidPrice, askPrice) ==
    LET bidsLive == bidPrice \in DOMAIN m.bids
        asksLive == askPrice \in DOMAIN m.asks
        staleExit == [m EXCEPT !.staleRead = TRUE]
    IN  IF Threw(m) THEN m
        ELSE IF ~bidsLive THEN staleExit
        ELSE IF Len(m.bids[bidPrice]) = 0 THEN m
        ELSE IF ~asksLive THEN staleExit
        ELSE IF Len(m.asks[askPrice]) = 0 THEN m
        ELSE MatchLevel(MatchStep(m, bidPrice, askPrice), bidPrice, askPrice)

\* Fault: matching stops as soon as the best prices are equal.
NoPriceOverlapNonStrict(bidPrice, askPrice) == bidPrice <= askPrice

\* The test that ends matching: `if (bidPrice < askPrice) break;`.
NoPriceOverlap(bidPrice, askPrice) == bidPrice < askPrice

\* Fault: the pair of best levels is matched once, without the outer loop.
MatchLoopOnce(m) ==
    IF Threw(m) THEN m
    ELSE IF DOMAIN m.bids = {} \/ DOMAIN m.asks = {} THEN m
    ELSE LET bidPrice == BestBid(m)
             askPrice == BestAsk(m)
         IN  IF NoPriceOverlap(bidPrice, askPrice) THEN m
             ELSE MatchLevel(m, bidPrice, askPrice)

\* The outer `while (true)` loop (orderbook.cpp 57-128).
RECURSIVE MatchLoop(_)
MatchLoop(m) ==
    IF Threw(m) THEN m
    ELSE IF DOMAIN m.bids = {} \/ DOMAIN m.asks = {} THEN m
    ELSE LET bidPrice == BestBid(m)
             askPrice == BestAsk(m)
         IN  IF NoPriceOverlap(bidPrice, askPrice) THEN m
             ELSE MatchLoop(MatchLevel(m, bidPrice, askPrice))

\* Iteration over one side map: levels in the map's order, each list front to back.
RECURSIVE SideOrders(_, _)
SideOrders(sideMap, descending) ==
    IF DOMAIN sideMap = {} THEN <<>>
    ELSE LET p == IF descending THEN SetMax(DOMAIN sideMap) ELSE SetMin(DOMAIN sideMap)
         IN  sideMap[p] \o SideOrders(MapErase(sideMap, p), descending)

\* Fault: no unfilled FOK order is collected.
collectFokOrdersNone(sideMap, descending) == <<>>

collectFokOrders(sideMap, descending) ==
    LET unfilled == SelectSeq(SideOrders(sideMap, descending),
                              LAMBDA o : o.type = "FOK" /\ ~isFilled(o))
    IN  [i \in 1..Len(unfilled) |-> unfilled[i].id]

RECURSIVE CancelAll(_, _)
CancelAll(b, ids) ==
    IF Threw(b) \/ ids = <<>> THEN b ELSE CancelAll(cancelOrder(b, Head(ids)), Tail(ids))

matchOrders(b) ==
    LET start == [bids |-> b.bids, asks |-> b.asks, orders |-> b.orders,
                  trades |-> <<>>, log |-> <<>>, staleRead |-> FALSE, exception |-> FALSE]
        m == MatchLoop(start)
        fokOrdersToCancel == collectFokOrders(m.bids, TRUE) \o collectFokOrders(m.asks, FALSE)
    IN  IF Threw(m) THEN m ELSE CancelAll(m, fokOrdersToCancel)

\* A call that returns without entering the matching engine.
Returned(b, ts) ==
    [bids |-> b.bids, asks |-> b.asks, orders |-> b.orders,
     trades |-> ts, log |-> <<>>, staleRead |-> FALSE, exception |-> Threw(b)]

\* Fault: no test for an id that is already in orders_.
addOrderNoDuplicateCheck(b, order) ==
    IF order.type = "FOK" /\ ~canMatch(b, order.side, order.price) THEN Returned(b, <<>>)
    ELSE LET addToSide(sideMap) ==
                 IF order.price \in DOMAIN sideMap
                 THEN [sideMap EXCEPT ![order.price] = Append(@, order)]
                 ELSE MapPut(sideMap, order.price, <<order>>)
             inserted == [bids |-> IF order.side = "BUY" THEN addToSide(b.bids) ELSE b.bids,
                          asks |-> IF order.side = "BUY" THEN b.asks ELSE addToSide(b.asks),
                          orders |-> MapPut(b.orders, order.id, OrderEntry(order))]
         IN  matchOrders(inserted)

\* Fault: the canMatch preflight is applied to every order type.
addOrderPreflightAll(b, order) ==
    IF order.id \in DOMAIN b.orders THEN Returned(b, <<>>)
    ELSE IF ~canMatch(b, order.side, order.price) THEN Returned(b, <<>>)
    ELSE LET addToSide(sideMap) ==
                 IF order.price \in DOMAIN sideMap
                 THEN [sideMap EXCEPT ![order.price] = Append(@, order)]
                 ELSE MapPut(sideMap, order.price, <<order>>)
             inserted == [bids |-> IF order.side = "BUY" THEN addToSide(b.bids) ELSE b.bids,
                          asks |-> IF order.side = "BUY" THEN b.asks ELSE addToSide(b.asks),
                          orders |-> MapPut(b.orders, order.id, OrderEntry(order))]
         IN  matchOrders(inserted)

\* Fault: the order is put at the front of its level (push_front).
addOrderPushFront(b, order) ==
    IF order.id \in DOMAIN b.orders THEN Returned(b, <<>>)
    ELSE IF order.type = "FOK" /\ ~canMatch(b, order.side, order.price) THEN Returned(b, <<>>)
    ELSE LET addToSide(sideMap) ==
                 IF order.price \in DOMAIN sideMap
                 THEN [sideMap EXCEPT ![order.price] = <<order>> \o @]
                 ELSE MapPut(sideMap, order.price, <<order>>)
             inserted == [bids |-> IF order.side = "BUY" THEN addToSide(b.bids) ELSE b.bids,
                          asks |-> IF order.side = "BUY" THEN b.asks ELSE addToSide(b.asks),
                          orders |-> MapPut(b.orders, order.id, OrderEntry(order))]
         IN  matchOrders(inserted)

addOrder(b, order) ==
    IF order.id \in DOMAIN b.orders THEN Returned(b, <<>>)
    ELSE IF order.type = "FOK" /\ ~canMatch(b, order.side, order.price) THEN Returned(b, <<>>)
    ELSE LET addToSide(sideMap) ==
                 IF order.price \in DOMAIN sideMap
                 THEN [sideMap EXCEPT ![order.price] = Append(@, order)]
                 ELSE MapPut(sideMap, order.price, <<order>>)
             inserted == [bids |-> IF order.side = "BUY" THEN addToSide(b.bids) ELSE b.bids,
                          asks |-> IF order.side = "BUY" THEN b.asks ELSE addToSide(b.asks),
                          orders |-> MapPut(b.orders, order.id, OrderEntry(order))]
         IN  matchOrders(inserted)

\* Fault: an amend that keeps side and price rewrites the order where it
\* stands instead of cancelling and re-inserting it.
matchOrderInPlace(b, order) ==
    IF order.id \notin DOMAIN b.orders THEN Returned(b, <<>>)
    ELSE LET existing == b.orders[order.id].order_
             new == toOrderPointer(order, existing.type)
             swap(l) == [i \in 1..Len(l) |-> IF l[i].id = order.id THEN new ELSE l[i]]
         IN  IF existing.side = order.side /\ existing.price = order.price
             THEN matchOrders(
                    [bids |-> IF order.side = "BUY"
                              THEN [b.bids EXCEPT ![order.price] = swap(@)] ELSE b.bids,
                     asks |-> IF order.side = "BUY"
                              THEN b.asks ELSE [b.asks EXCEPT ![order.price] = swap(@)],
                     orders |-> [b.orders EXCEPT ![order.id] = OrderEntry(new)]])
             ELSE addOrder(cancelOrder(b, order.id), new)

\* Fault: an amend that cannot trade only cancels.
matchOrderCancelsUnmarketable(b, order) ==
    IF order.id \notin DOMAIN b.orders THEN Returned(b, <<>>)
    ELSE LET existingOrderType == b.orders[order.id].order_.type
             cancelled == cancelOrder(b, order.id)
         IN  IF Threw(cancelled) \/ ~canMatch(cancelled, order.side, order.price)
             THEN Returned(cancelled, <<>>)
             ELSE addOrder(cancelled, toOrderPointer(order, existingOrderType))

\* Fault: an amend of an id that is not there submits the request as a new order.
matchOrderUpsert(b, order) ==
    IF order.id \notin DOMAIN b.orders THEN addOrder(b, toOrderPointer(order, order.type))
    ELSE LET existingOrderType == b.orders[order.id].order_.type
         IN  addOrder(cancelOrder(b, order.id), toOrderPointer(order, existingOrderType))

matchOrder(b, order) ==
    IF order.id \notin DOMAIN b.orders THEN Returned(b, <<>>)
    ELSE LET existingOrderType == b.orders[order.id].order_.type
             cancelled == cancelOrder(b, order.id)
         IN  IF Threw(cancelled) THEN Returned(cancelled, <<>>)
             ELSE addOrder(cancelled, toOrderPointer(order, existingOrderType))

\* ---- The OrderBook class of main.cpp ----
\* main.cpp holds its own copy of the class, with Price and Quantity as plain
\* integers.  Its matching loop (main.cpp 272-330) is the text of
\* orderbook.cpp 57-128 and is modelled by the same MatchLoop.

mainCanMatch(b, side, price) ==
    IF side = "BUY"
    THEN IF DOMAIN b.asks = {} THEN FALSE ELSE price >= BestAsk(b)
    ELSE IF DOMAIN b.bids = {} THEN FALSE ELSE price <= BestBid(b)

mainCancelOrder(b, orderId) ==
    IF orderId \notin DOMAIN b.orders
    THEN b
    ELSE LET entry == b.orders[orderId]
             orderSide == entry.order_.side
             orderPrice == entry.order_.price
             erased == MapErase(b.orders, orderId)
             atThrows == orderPrice \notin DOMAIN (IF orderSide = "SELL" THEN b.asks ELSE b.bids)
             remove(sideMap) ==
                 LET l == ListErase(sideMap[orderPrice], entry.location)
                 IN  IF l = <<>> THEN MapErase(sideMap, orderPrice)
                     ELSE [sideMap EXCEPT ![orderPrice] = l]
         IN  IF atThrows THEN Raise([b EXCEPT !.orders = erased])
             ELSE IF orderSide = "SELL"
             THEN [b EXCEPT !.orders = erased, !.asks = remove(b.asks)]
             ELSE [b EXCEPT !.orders = erased, !.bids = remove(b.bids)]

\* Fault: only the bid side is inspected.
mainFokOrdersToCancelBidOnly(m) ==
    IF DOMAIN m.bids = {} THEN <<>>
    ELSE LET order == Head(m.bids[BestBid(m)])
         IN  IF order.type = "FOK" /\ ~isFilled(order) THEN <<order.id>> ELSE <<>>

\* The cleanup of main.cpp 332-352: the front order of the best level of
\* each side, bids first.
mainFokOrdersToCancel(m) ==
    LET front(sideMap, best) ==
            IF DOMAIN sideMap = {} THEN <<>>
            ELSE LET order == Head(sideMap[best])
                 IN  IF order.type = "FOK" /\ ~isFilled(order) THEN <<order.id>> ELSE <<>>
    IN  front(m.bids, BestBid(m)) \o front(m.asks, BestAsk(m))

RECURSIVE mainCancelAll(_, _)
mainCancelAll(b, ids) ==
    IF Threw(b) \/ ids = <<>> THEN b
    ELSE mainCancelAll(mainCancelOrder(b, Head(ids)), Tail(ids))

mainMatchOrders(b) ==
    LET start == [bids |-> b.bids, asks |-> b.asks, orders |-> b.orders,
                  trades |-> <<>>, log |-> <<>>, staleRead |-> FALSE, exception |-> FALSE]
        m == MatchLoop(start)
    IN  IF Threw(m) THEN m ELSE mainCancelAll(m, mainFokOrdersToCancel(m))

mainAddOrder(b, order) ==
    IF order.id \in DOMAIN b.orders THEN Returned(b, <<>>)
    ELSE IF order.type = "FOK" /\ ~mainCanMatch(b, order.side, order.price)
    THEN Returned(b, <<>>)
    ELSE LET pushBack(sideMap) ==
                 IF order.price \in DOMAIN sideMap
                 THEN [sideMap EXCEPT ![order.price] = Append(@, order)]
                 ELSE MapPut(sideMap, order.price, <<order>>)
             inserted == [bids |-> IF order.side = "BUY" THEN pushBack(b.bids) ELSE b.bids,
                          asks |-> IF order.side = "BUY" THEN b.asks ELSE pushBack(b.asks),
                          orders |-> MapPut(b.orders, order.id, OrderEntry(order))]
         IN  mainMatchOrders(inserted)

mainMatchOrder(b, order) ==
    IF order.id \notin DOMAIN b.orders THEN Returned(b, <<>>)
    ELSE LET existingOrderType == b.orders[order.id].order_.type
             cancelled == mainCancelOrder(b, order.id)
         IN  IF Threw(cancelled) THEN Returned(cancelled, <<>>)
             ELSE mainAddOrder(cancelled, toOrderPointer(order, existingOrderType))

getSize(b) == Cardinality(DOMAIN b.orders)

orderExists(b, orderId) == orderId \in DOMAIN b.orders

\* Unsigned arithmetic of the width of Quantity's value.
UInt32(n) == n % (2 ^ QuantityBits)

\* std::accumulate over the list with a std::uint32_t running sum from 0u.
RECURSIVE accumulate(_, _)
accumulate(l, runningSum) ==
    IF l = <<>> THEN runningSum
    ELSE accumulate(Tail(l), UInt32(runningSum + Head(l).remainingQuantity))

OrderBookLevel(price, quantity) == [price |-> price, quantity |-> quantity]

\* Fault: the level reports the number of its orders.
createLevelInfosCount(price, l) == OrderBookLevel(price, Len(l))

createLevelInfos(price, l) ==
    LET totalQty == accumulate(l, 0)
    IN  IF totalQty = 0 THEN OrderBookLevel(price, 1)
        ELSE OrderBookLevel(price, totalQty)

\* The range-for over one side map, in the map's order.
RECURSIVE SideLevels(_, _)
SideLevels(sideMap, descending) ==
    IF DOMAIN sideMap = {} THEN <<>>
    ELSE LET p == IF descending THEN SetMax(DOMAIN sideMap) ELSE SetMin(DOMAIN sideMap)
         IN  <<createLevelInfos(p, sideMap[p])>> \o SideLevels(MapErase(sideMap, p), descending)

getOrderBookLevelInfos(b) ==
    [bidlevels |-> SideLevels(b.bids, TRUE), asklevels |-> SideLevels(b.asks, FALSE)]

\* ------------------------------------------------------------------ CSV driver
\* A line is the sequence of its comma-separated fields.  A numeric field is
\* a decimal integer ("int"), a decimal integer followed by other characters
\* ("trail", like 1x) or no number at all ("junk").
Decimal(n) == [kind |-> "int", value |-> n]
DecimalThen(n) == [kind |-> "trail", value |-> n]
NotANumber == [kind |-> "junk", value |-> 0]

\* std::stoll / std::stoull: std::invalid_argument when no digits lead the
\* string; characters after the digits are ignored.  (The fields of the model
\* are all within long long / unsigned long long.)
stollThrows(str) == str.kind = "junk"
stoll(str) == str.value

\* The conversion long long -> std::int32_t of Price's constructor argument:
\* the value modulo 2^width, in the signed range.
Int32(n) == ((n + 2 ^ (PriceBits - 1)) % (2 ^ PriceBits)) - 2 ^ (PriceBits - 1)

\* Fault: the Price constructor accepts every value.
PriceThrowsNever(value) == FALSE

\* Price::Price and Quantity::Quantity throw std::invalid_argument.
PriceThrows(value) == value <= 0
QuantityThrows(value) == value = 0

\* safeStringToNumber<T>: Price and Quantity are classes, none of the three
\* `if constexpr` branches is taken for them and the fallback
\* static_cast<T>(std::stoll(str)) constructs T from the long long; OrderId is
\* std::uint64_t and takes the first branch.
safeStringToNumberThrows(T, str) ==
    \/ stollThrows(str)
    \/ T = "Price" /\ PriceThrows(Int32(stoll(str)))
    \/ T = "Quantity" /\ QuantityThrows(UInt32(stoll(str)))

safeStringToNumber(T, str) ==
    IF T = "Price" THEN Int32(stoll(str))
    ELSE IF T = "Quantity" THEN UInt32(stoll(str))
    ELSE stoll(str)

NoCall == [name |-> "none"]

\* The line is skipped: the core is not called.
Skipped(b) == [call |-> NoCall, r |-> Returned(b, <<>>)]

\* The body of the loop of processCsvFile for one line: the call made on the
\* book, if any, and its result.
processLine(b, line) ==
    IF Len(line) = 0 THEN Skipped(b)
    ELSE IF Len(line) < 2 THEN Skipped(b)
    ELSE IF line[1] # "CANCEL" /\ Len(line) < 6 THEN Skipped(b)
    ELSE IF safeStringToNumberThrows("OrderId", line[2]) THEN Skipped(b)
    ELSE LET action == line[1]
             orderId == safeStringToNumber("OrderId", line[2])
         IN  IF action \in {"CREATE", "MODIFY"}
             THEN LET orderSide == IF line[3] = "BUY" THEN "BUY" ELSE "SELL"
                      orderType == IF line[4] = "GTC" THEN "GTC" ELSE "FOK"
                  IN  IF \/ safeStringToNumberThrows("Price", line[5])
                         \/ safeStringToNumberThrows("Quantity", line[6])
                      THEN Skipped(b)
                      ELSE LET price == safeStringToNumber("Price", line[5])
                               quantity == safeStringToNumber("Quantity", line[6])
                               call == [name |-> IF action = "CREATE" THEN "addOrder"
                                                 ELSE "matchOrder",
                                        id |-> orderId, side |-> orderSide,
                                        type |-> orderType, price |-> price,
                                        quantity |-> quantity]
                           IN  IF action = "CREATE"
                               THEN [call |-> call,
                                     r |-> addOrder(b, Order(orderId, orderSide, orderType,
                                                             price, quantity))]
                               ELSE [call |-> call,
                                     r |-> matchOrder(b, OrderModifier(orderId, orderSide,
                                                             orderType, price, quantity))]
             ELSE IF action = "CANCEL"
             THEN [call |-> [name |-> "cancelOrder", id |-> orderId],
                   r |-> Returned(cancelOrder(b, orderId), <<>>)]
             ELSE Skipped(b)

\* The lines of the model.
Actions == {"CREATE", "MODIFY", "CANCEL", "UPDATE"}
SideFields == {"BUY", "SELL", "HOLD"}
TypeFields == {"GTC", "FOK", "IOC"}
IdFields == {Decimal(n) : n \in 1..MaxLineId} \cup {NotANumber}
PriceFields ==
    {Decimal(n) : n \in -1..MaxPrice} \cup {Decimal(2 ^ PriceBits + 1), DecimalThen(1), NotANumber}
QuantityFields ==
    {Decimal(n) : n \in 0..MaxQty} \cup {Decimal(2 ^ QuantityBits + 1), NotANumber}

Lines ==
    {<<>>}
    \cup {<<a>> : a \in Actions}
    \cup {<<a, id>> : a \in Actions, id \in IdFields}
    \cup {<<a, id, s, t, p>> : a \in {"CREATE", "MODIFY"}, id \in {Decimal(1)},
                               s \in {"BUY"}, t \in {"GTC"}, p \in {Decimal(1)}}
    \cup {<<a, id, s, t, p, q>> : a \in Actions, id \in IdFields, s \in SideFields,
                                  t \in TypeFields, p \in PriceFields, q \in QuantityFields}

\* ------------------------------------------------------------------ actions
NoOp == [op |-> "none"]

Init ==
    /\ bids = EmptyMap
    /\ asks = EmptyMap
    /\ orders = EmptyMap
    /\ lastOp = NoOp
    /\ prev = Book
    /\ trades = <<>>
    /\ log = <<>>
    /\ staleRead = FALSE
    /\ status = "running"

\* The call returns r, unless it read a destroyed list and the read faulted:
\* then the process is gone and nothing is returned.  A call that threw
\* leaves the book as it was at the throw and returns no trades.
Finish(r, op) ==
    \E stale \in (IF r.staleRead THEN StaleOutcomes ELSE {"zero"}) :
        /\ prev' = Book
        /\ lastOp' = op
        /\ IF stale = "fault"
           THEN /\ status' = "crashed"
                /\ staleRead' = TRUE
                /\ trades' = <<>>
                /\ log' = <<>>
                /\ UNCHANGED <<bids, asks, orders>>
           ELSE /\ status' = IF r.exception THEN "threw" ELSE "running"
                /\ staleRead' = r.staleRead
                /\ trades' = IF r.exception THEN <<>> ELSE r.trades
                /\ log' = IF r.exception THEN <<>> ELSE r.log
                /\ bids' = r.bids
                /\ asks' = r.asks
                /\ orders' = r.orders

Submit ==
    /\ status = "running"
    /\ lastOp = NoOp
    /\ \E id \in OrderIds, side \in OrderSide, type \in OrderType,
          price \in Prices, quantity \in Quantities :
          Finish(addOrder(Book, Order(id, side, type, price, quantity)),
                 [op |-> "addOrder", id |-> id, side |-> side, type |-> type,
                  price |-> price, quantity |-> quantity])

Cancel ==
    /\ status = "running"
    /\ lastOp = NoOp
    /\ \E id \in OrderIds :
          Finish(Returned(cancelOrder(Book, id), <<>>), [op |-> "cancelOrder", id |-> id])

Amend ==
    /\ status = "running"
    /\ lastOp = NoOp
    /\ \E id \in OrderIds, side \in OrderSide, type \in OrderType,
          price \in Prices, quantity \in Quantities :
          Finish(matchOrder(Book, OrderModifier(id, side, type, price, quantity)),
                 [op |-> "matchOrder", id |-> id, side |-> side, type |-> type,
                  price |-> price, quantity |-> quantity])

\* Quantity::operator-: the difference is a new Quantity, whose constructor
\* throws for 0.
QuantityMinus(a, b) ==
    LET value == UInt32(a - b)
    IN  [throws |-> QuantityThrows(value), value |-> value]

getFilledQuantity(o) == QuantityMinus(o.initialQuantity, o.remainingQuantity)

\* A holder of the pointer to a resting order asks for its filled quantity.
FilledQuantity ==
    /\ status = "running"
    /\ lastOp = NoOp
    /\ \E id \in DOMAIN orders :
          LET filled == getFilledQuantity(orders[id].order_)
              r == Returned(Book, <<>>)
          IN  Finish(IF filled.throws THEN Raise(r) ELSE r,
                     [op |-> "getFilledQuantity", id |-> id, filled |-> filled])

\* getOrderBookLevelInfos is const: the book is read, the levels are returned.
Snapshot ==
    /\ status = "running"
    /\ lastOp = NoOp
    /\ Finish(Returned(Book, <<>>),
              [op |-> "getOrderBookLevelInfos", infos |-> getOrderBookLevelInfos(Book)])

\* The caller is done with the result of the call: the returned Trades vector
\* goes out of scope, or the exception was caught and reported, and the next
\* command is read.
NextCommand ==
    /\ status \in {"running", "threw"}
    /\ lastOp # NoOp
    /\ lastOp' = NoOp
    /\ prev' = Book
    /\ trades' = <<>>
    /\ log' = <<>>
    /\ staleRead' = FALSE
    /\ status' = "running"
    /\ UNCHANGED <<bids, asks, orders>>

Next == Submit \/ Cancel \/ Amend \/ Snapshot \/ FilledQuantity \/ NextCommand

Spec == Init /\ [][Next]_vars

\* processCsvFile: one line is read and processed at a time.
ProcessLine ==
    /\ status = "running"
    /\ lastOp = NoOp
    /\ \E line \in Lines :
          LET p == processLine(Book, line)
          IN  Finish(p.r, [op |-> "processLine", line |-> line, call |-> p.call])

CsvNext == ProcessLine \/ NextCommand

CsvSpec == Init /\ [][CsvNext]_vars

\* ------------------------------------------------------------------ properties
Running == status = "running"

Marketable(side, limit, p) == IF side = "BUY" THEN p <= limit ELSE p >= limit

RECURSIVE SumRemaining(_)
SumRemaining(l) == IF l = <<>> THEN 0 ELSE Head(l).remainingQuantity + SumRemaining(Tail(l))

RECURSIVE SumTraded(_)
SumTraded(ts) == IF ts = <<>> THEN 0 ELSE Head(ts).bid.quantity + SumTraded(Tail(ts))

\* The orders of one side, best price first and front to back within a price.
InPriority(b, side) ==
    IF side = "BUY" THEN SideOrders(b.bids, TRUE) ELSE SideOrders(b.asks, FALSE)

\* The resting quantity an order (side, limit) can trade with.
MarketableOrders(b, side, limit) ==
    SelectSeq(InPriority(b, IF side = "BUY" THEN "SELL" ELSE "BUY"),
              LAMBDA o : Marketable(side, limit, o.price))

MarketableQty(b, side, limit) == SumRemaining(MarketableOrders(b, side, limit))

IsSubmit == lastOp.op = "addOrder"
IsCancel == lastOp.op = "cancelOrder"
IsAmend == lastOp.op = "matchOrder"

\* C1: after every public call that returns, if both sides are non-empty the
\* highest bid price is strictly below the lowest ask price.
C1_NoCross ==
    (Running /\ DOMAIN bids # {} /\ DOMAIN asks # {})
        => \A pb \in DOMAIN bids, pa \in DOMAIN asks : pb < pa

C1_Witness ==
    /\ Running
    /\ lastOp.op \in {"addOrder", "matchOrder"}
    /\ trades # <<>>
    /\ DOMAIN bids # {} /\ DOMAIN asks # {}

\* The order with this id has priority on its side of the book snap: no other
\* order there has a strictly better price, or its price and an earlier place.
HasPriority(sideMap, isBid, id) ==
    \E p \in DOMAIN sideMap : \E k \in 1..Len(sideMap[p]) :
        /\ sideMap[p][k].id = id
        /\ k = 1
        /\ \A q \in DOMAIN sideMap : IF isBid THEN q <= p ELSE q >= p

\* C2: every trade returned pairs the order that had priority among the bids
\* with the order that had priority among the asks at the moment of the trade,
\* so no resting order trades while a better placed one on its side waits.
C2_PriceTimePriority ==
    /\ Len(log) = Len(trades)
    /\ \A i \in 1..Len(trades) :
          /\ HasPriority(log[i].bids, TRUE, trades[i].bid.orderId)
          /\ HasPriority(log[i].asks, FALSE, trades[i].ask.orderId)

C2_Witness ==
    /\ Running
    /\ Len(trades) = 2
    /\ \E i \in 1..Len(trades) :
          \/ Cardinality(DOMAIN log[i].bids) = 2
          \/ \E p \in DOMAIN log[i].bids : Len(log[i].bids[p]) = 2

IsFokSubmit == IsSubmit /\ lastOp.type = "FOK"

\* C3: a FOK order submitted when the marketable quantity on the other side
\* is less than its quantity returns no trade and leaves the book as it was.
C3_FokRejected ==
    (Running /\ IsFokSubmit
       /\ MarketableQty(prev, lastOp.side, lastOp.price) < lastOp.quantity)
        => (trades = <<>> /\ Book = prev)

\* C4: the trades returned for a FOK order sum to 0 or to its whole quantity.
C4_FokAllOrNothing ==
    (Running /\ IsFokSubmit) => SumTraded(trades) \in {0, lastOp.quantity}

\* What sweeping the resting orders l, in that order, for quantity q trades:
\* the counterparty and the quantity of each trade.
RECURSIVE ExpectedSweep(_, _)
ExpectedSweep(l, q) ==
    IF q = 0 \/ l = <<>> THEN <<>>
    ELSE LET t == IF Head(l).remainingQuantity < q THEN Head(l).remainingQuantity ELSE q
         IN  <<[orderId |-> Head(l).id, price |-> Head(l).price, quantity |-> t]>>
                 \o ExpectedSweep(Tail(l), q - t)

\* The leg of a trade that belongs to the other side than `side`.
RestingLeg(t, side) == IF side = "BUY" THEN t.ask ELSE t.bid
OwnLeg(t, side) == IF side = "BUY" THEN t.bid ELSE t.ask

IsInBook(b, id) ==
    \/ id \in DOMAIN b.orders
    \/ \E p \in DOMAIN b.bids : \E k \in 1..Len(b.bids[p]) : b.bids[p][k].id = id
    \/ \E p \in DOMAIN b.asks : \E k \in 1..Len(b.asks[p]) : b.asks[p][k].id = id

\* C5: a FOK order with a fresh id, submitted when the marketable quantity on
\* the other side covers its quantity, trades exactly its quantity, against the
\* other side's orders in price then time order, and does not rest afterwards.
C5_FokAccepted ==
    (Running /\ IsFokSubmit
       /\ lastOp.id \notin DOMAIN prev.orders
       /\ MarketableQty(prev, lastOp.side, lastOp.price) >= lastOp.quantity)
        => LET expected == ExpectedSweep(MarketableOrders(prev, lastOp.side, lastOp.price),
                                         lastOp.quantity)
           IN  /\ SumTraded(trades) = lastOp.quantity
               /\ Len(trades) = Len(expected)
               /\ \A i \in 1..Len(trades) :
                     /\ RestingLeg(trades[i], lastOp.side) = expected[i]
                     /\ OwnLeg(trades[i], lastOp.side) =
                           [orderId |-> lastOp.id, price |-> lastOp.price,
                            quantity |-> expected[i].quantity]
               /\ ~IsInBook(Book, lastOp.id)

C5_Witness ==
    /\ Running /\ IsFokSubmit
    /\ lastOp.id \notin DOMAIN prev.orders
    /\ MarketableQty(prev, lastOp.side, lastOp.price) >= lastOp.quantity
    /\ Len(trades) = 2
    /\ RestingLeg(trades[1], lastOp.side).price # RestingLeg(trades[2], lastOp.side).price

\* C6: after a call returns, no order in a level or in the index is FOK.
C6_NoFokResting ==
    Running =>
        /\ \A p \in DOMAIN bids : \A k \in 1..Len(bids[p]) : bids[p][k].type # "FOK"
        /\ \A p \in DOMAIN asks : \A k \in 1..Len(asks[p]) : asks[p][k].type # "FOK"
        /\ \A id \in DOMAIN orders : orders[id].order_.type # "FOK"

\* A FOK order that traded part of its quantity: its remainder was in the
\* book when matching ended.
C6_Witness ==
    /\ Running /\ IsFokSubmit
    /\ trades # <<>>
    /\ SumTraded(trades) < lastOp.quantity
    /\ DOMAIN orders # {}

\* C7: a submit whose id is resting returns no trade and leaves the book, and
\* with it the resting order, its remaining quantity and its place, unchanged.
C7_DuplicateRejected ==
    (IsSubmit /\ lastOp.id \in DOMAIN prev.orders)
        => (Running /\ trades = <<>> /\ Book = prev)

\* The duplicate differs from the resting order in side, price and type.
C7_Witness ==
    /\ IsSubmit /\ Running
    /\ lastOp.id \in DOMAIN prev.orders
    /\ prev.orders[lastOp.id].order_.side # lastOp.side
    /\ prev.orders[lastOp.id].order_.price # lastOp.price
    /\ prev.orders[lastOp.id].order_.type # lastOp.type
    /\ canMatch(prev, lastOp.side, lastOp.price)

\* A side map with every order of this id taken out and emptied levels dropped.
LevelsWithout(sideMap, id) ==
    LET rest(p) == SelectSeq(sideMap[p], LAMBDA o : o.id # id)
    IN  [p \in {q \in DOMAIN sideMap : rest(q) # <<>>} |-> rest(p)]

RestingCount(b) == Len(InPriority(b, "BUY")) + Len(InPriority(b, "SELL"))

\* C8: cancel of a resting id takes exactly that order out of its level and
\* out of the index, drops the level if it is left empty, returns no trade
\* and leaves every other order, and the order among them, as they were.
C8_CancelResting ==
    (IsCancel /\ lastOp.id \in DOMAIN prev.orders)
        => /\ Running
           /\ trades = <<>>
           /\ DOMAIN orders = DOMAIN prev.orders \ {lastOp.id}
           /\ \A id \in DOMAIN orders : orders[id] = prev.orders[id]
           /\ bids = LevelsWithout(prev.bids, lastOp.id)
           /\ asks = LevelsWithout(prev.asks, lastOp.id)
           /\ RestingCount(Book) = RestingCount(prev) - 1

\* The cancelled order was behind another one in its level.
C8_Witness ==
    /\ IsCancel /\ Running
    /\ lastOp.id \in DOMAIN prev.orders
    /\ \E p \in DOMAIN prev.bids :
          /\ Len(prev.bids[p]) = 2
          /\ prev.bids[p][2].id = lastOp.id
    /\ DOMAIN prev.asks # {}

\* C9: cancel of an id that is not resting leaves the book as it is, and a
\* second cancel of the same id changes nothing after the first.
C9_CancelIdempotent ==
    /\ (IsCancel /\ lastOp.id \notin DOMAIN prev.orders) => (Running /\ Book = prev /\ trades = <<>>)
    /\ \A x \in OrderIds :
          /\ x \notin DOMAIN orders => cancelOrder(Book, x) = Book
          /\ cancelOrder(cancelOrder(Book, x), x) = cancelOrder(Book, x)

\* A cancel of an id that is not resting, on a book that holds other orders.
C9_Witness ==
    /\ IsCancel /\ Running
    /\ lastOp.id \notin DOMAIN prev.orders
    /\ Cardinality(DOMAIN orders) = 2

\* The book and the trades of a call, without the bookkeeping of the model.
Outcome(r) == [bids |-> r.bids, asks |-> r.asks, orders |-> r.orders, trades |-> r.trades]

\* C10: amend of a resting id gives the trades and the book of cancel followed
\* by submit of a new order with the amended side, price and quantity and the
\* type of the order amended; the type in the request changes nothing.
C10_AmendLaw ==
    /\ (IsAmend /\ Running /\ lastOp.id \in DOMAIN prev.orders)
          => LET original == prev.orders[lastOp.id].order_
                 resubmitted == [id |-> lastOp.id, side |-> lastOp.side, type |-> original.type,
                                 price |-> lastOp.price, initialQuantity |-> lastOp.quantity,
                                 remainingQuantity |-> lastOp.quantity]
                 r == addOrder(cancelOrder(prev, lastOp.id), resubmitted)
             IN  /\ Outcome(r) = [bids |-> bids, asks |-> asks, orders |-> orders, trades |-> trades]
                 /\ r.staleRead = staleRead
    /\ lastOp = NoOp =>
          \A x \in DOMAIN orders : \A side \in OrderSide, price \in Prices, quantity \in Quantities :
          Outcome(matchOrder(Book, OrderModifier(x, side, "FOK", price, quantity)))
              = Outcome(matchOrder(Book, OrderModifier(x, side, "GTC", price, quantity)))

\* An amend that asks for FOK, trades part of the new quantity and rests.
C10_Witness ==
    /\ IsAmend /\ Running
    /\ lastOp.id \in DOMAIN prev.orders
    /\ lastOp.type = "FOK"
    /\ trades # <<>>
    /\ lastOp.id \in DOMAIN orders

\* The level of an order (side, price) in a book; empty when there is none.
LevelOf(b, side, price) ==
    LET sideMap == IF side = "BUY" THEN b.bids ELSE b.asks
    IN  IF price \in DOMAIN sideMap THEN sideMap[price] ELSE <<>>

IdsOf(l) == [i \in 1..Len(l) |-> l[i].id]

IsAmendOfResting == IsAmend /\ lastOp.id \in DOMAIN prev.orders

\* C11: an amended order that still rests is the last of its level, behind
\* every order that was resting at that price, also when side, price and
\* quantity are unchanged; a later crossing order trades with those first.
C11_AmendLosesPriority ==
    (Running /\ IsAmendOfResting /\ lastOp.id \in DOMAIN orders)
        => LET level == LevelOf(Book, lastOp.side, lastOp.price)
               before == SelectSeq(LevelOf(prev, lastOp.side, lastOp.price),
                                   LAMBDA o : o.id # lastOp.id)
           IN  /\ level # <<>>
               /\ level[Len(level)].id = lastOp.id
               /\ SelectSeq(level, LAMBDA o : o.id # lastOp.id) = before
               /\ Len(level) = Len(before) + 1
               /\ Len(level) > 1 =>
                     \A x \in OrderIds \ DOMAIN orders, quantity \in Quantities :
                         LET crossing == Order(x, IF lastOp.side = "BUY" THEN "SELL" ELSE "BUY",
                                               "GTC", lastOp.price, quantity)
                             r == addOrder(Book, crossing)
                         IN  /\ r.trades # <<>>
                             /\ OwnLeg(r.trades[1], lastOp.side).orderId # lastOp.id

\* An amend that changes nothing, of the order at the head of a level of two.
C11_Witness ==
    /\ Running /\ IsAmendOfResting
    /\ LET old == LevelOf(prev, lastOp.side, lastOp.price)
           new == LevelOf(Book, lastOp.side, lastOp.price)
       IN  /\ Len(old) = 2 /\ Len(new) = 2
           /\ old[1].id = lastOp.id
           /\ old[1] = Order(lastOp.id, lastOp.side, "GTC", lastOp.price, lastOp.quantity)
           /\ new[2].id = lastOp.id

\* C12: amend of an id that is not resting returns no trade, inserts nothing
\* and leaves the book as it was.
C12_AmendUnknown ==
    (IsAmend /\ lastOp.id \notin DOMAIN prev.orders)
        => (Running /\ trades = <<>> /\ Book = prev /\ ~IsInBook(Book, lastOp.id))

\* The request would have traded had it been submitted as an order.
C12_Witness ==
    /\ IsAmend /\ Running
    /\ lastOp.id \notin DOMAIN prev.orders
    /\ canMatch(prev, lastOp.side, lastOp.price)

\* The orders of prev that the call took out of the book.
Removed == DOMAIN prev.orders \ DOMAIN orders

\* C13: size(), the number of entries of the order index, is the number of
\* orders held in the levels of both sides.
C13_SizeIsRestingCount == getSize(Book) = RestingCount(Book)

\* A call that traded, took an order out of the book and left two or more.
C13_Witness ==
    /\ Running /\ trades # <<>>
    /\ Removed # {}
    /\ getSize(Book) >= 2

\* Every place of a book where an order is held: side, price, position.
Slots(b) ==
    UNION {{<<"BUY", p, i>> : i \in 1..Len(b.bids[p])} : p \in DOMAIN b.bids}
    \cup UNION {{<<"SELL", p, i>> : i \in 1..Len(b.asks[p])} : p \in DOMAIN b.asks}

At(b, slot) ==
    IF slot[1] = "BUY" THEN b.bids[slot[2]][slot[3]] ELSE b.asks[slot[2]][slot[3]]

\* C14: every id of the index is held in exactly one place of the levels, on
\* the side and at the price of its order, the entry's location names that
\* element and the element is the entry's order; every order held in a level
\* has an entry.
C14_IndexConsistency ==
    /\ \A id \in DOMAIN orders :
          LET entry == orders[id]
              holds == {s \in Slots(Book) : At(Book, s).id = id}
          IN  /\ entry.order_.id = id
              /\ Cardinality(holds) = 1
              /\ \A s \in holds :
                    /\ s[1] = entry.order_.side
                    /\ s[2] = entry.order_.price
                    /\ At(Book, s).id = entry.location
                    /\ At(Book, s) = entry.order_
    /\ \A s \in Slots(Book) : At(Book, s).id \in DOMAIN orders

\* A partly filled order rests among three orders, with orders on both sides.
C14_Witness ==
    /\ Running
    /\ getSize(Book) = 3
    /\ DOMAIN bids # {} /\ DOMAIN asks # {}
    /\ \E id \in DOMAIN orders :
          orders[id].order_.remainingQuantity < orders[id].order_.initialQuantity

\* C15: every price that is a key of the bid map or of the ask map has a
\* non-empty queue.
C15_NoEmptyLevel ==
    /\ \A p \in DOMAIN bids : bids[p] # <<>>
    /\ \A p \in DOMAIN asks : asks[p] # <<>>

\* A level of prev is gone after the call while another level of that side stays.
LevelDropped(before, after) == (DOMAIN before \ DOMAIN after) # {} /\ DOMAIN after # {}

\* Levels dropped by matching, by cancel, by amend and by the FOK cleanup.
C15_Witness ==
    /\ Running
    /\ LevelDropped(prev.bids, bids) \/ LevelDropped(prev.asks, asks)
    /\ \/ IsSubmit /\ trades # <<>>
       \/ IsCancel
       \/ IsAmend

\* C16: every order held in a level, and every order of the index, has a
\* remaining quantity above zero.
C16_RemainingPositive ==
    /\ \A s \in Slots(Book) : At(Book, s).remainingQuantity > 0
    /\ \A id \in DOMAIN orders : orders[id].order_.remainingQuantity > 0

\* A trade filled a resting order completely; it is gone and others rest.
C16_Witness ==
    /\ Running /\ trades # <<>>
    /\ \E id \in Removed :
          /\ id # lastOp.id
          /\ \E i \in 1..Len(trades) :
                /\ RestingLeg(trades[i], lastOp.side).orderId = id
                /\ ~IsInBook(Book, id)
    /\ orders # EmptyMap

\* The id of the order instance the call accepted: a submit with an id that
\* was not resting, or the re-insertion made by an amend of a resting order.
Accepted ==
    IF (IsSubmit /\ lastOp.id \notin DOMAIN prev.orders) \/ IsAmendOfResting
    THEN {lastOp.id} ELSE {}

\* The level holds, in the order they had before the call, the instances
\* that were there before and are still there, and behind them the instance
\* the call accepted, if it rests here.
KeepsQueueOrder(before, level) ==
    LET here == {level[i].id : i \in 1..Len(level)}
        stayed == SelectSeq(level, LAMBDA o : o.id \notin Accepted)
        wasHere == SelectSeq(before, LAMBDA o : o.id \notin Accepted /\ o.id \in here)
    IN  /\ IdsOf(stayed) = IdsOf(wasHere)
        /\ \A i \in 1..Len(level) : level[i].id \in Accepted => i = Len(level)

\* C17: every call leaves the orders of each level in the order in which
\* these instances were accepted: it never exchanges two orders that stay in
\* a level, never moves one to another level, and puts the instance it
\* accepts behind all of them.
C17_FifoWithinLevel ==
    Running =>
        /\ \A p \in DOMAIN bids : KeepsQueueOrder(LevelOf(prev, "BUY", p), bids[p])
        /\ \A p \in DOMAIN asks : KeepsQueueOrder(LevelOf(prev, "SELL", p), asks[p])

\* The accepted instance rests third in a level whose first two were there
\* in that order before the call.
C17_Witness ==
    /\ Running /\ Accepted # {}
    /\ LET level == LevelOf(Book, lastOp.side, lastOp.price)
           before == LevelOf(prev, lastOp.side, lastOp.price)
       IN  /\ Len(level) = 3
           /\ level[3].id = lastOp.id
           /\ Len(before) >= 2
           /\ <<level[1].id, level[2].id>> = <<before[Len(before) - 1].id, before[Len(before)].id>>

IsGtcSubmit ==
    IsSubmit /\ lastOp.type = "GTC" /\ lastOp.id \notin DOMAIN prev.orders

\* C18: after the submit of a GTC order with a fresh id and quantity Q whose
\* trades sum to T: T <= Q; if T < Q the order rests at its own side and
\* price, last of its level, with remaining quantity Q - T; if T = Q it is
\* not in the book.
C18_GtcRemainderRests ==
    (Running /\ IsGtcSubmit)
        => LET T == SumTraded(trades)
               level == LevelOf(Book, lastOp.side, lastOp.price)
               rest == [Order(lastOp.id, lastOp.side, "GTC", lastOp.price, lastOp.quantity)
                           EXCEPT !.remainingQuantity = lastOp.quantity - T]
           IN  /\ T <= lastOp.quantity
               /\ \A i \in 1..Len(trades) : OwnLeg(trades[i], lastOp.side).orderId = lastOp.id
               /\ T < lastOp.quantity =>
                     /\ lastOp.id \in DOMAIN orders
                     /\ orders[lastOp.id].order_ = rest
                     /\ level # <<>>
                     /\ level[Len(level)] = rest
               /\ T = lastOp.quantity => ~IsInBook(Book, lastOp.id)

\* A GTC order that traded part of its quantity and rests with the remainder.
C18_Witness ==
    /\ Running /\ IsGtcSubmit
    /\ SumTraded(trades) > 0
    /\ SumTraded(trades) < lastOp.quantity
    /\ lastOp.id \in DOMAIN orders

\* A GTC order that trades nothing is inserted all the same.
C18_WitnessNoTrade ==
    /\ Running /\ IsGtcSubmit
    /\ trades = <<>>
    /\ ~canMatch(prev, lastOp.side, lastOp.price)
    /\ lastOp.id \in DOMAIN orders

\* The orders with this id held on one side of a book (one at most, see C14).
Held(b, side, id) ==
    {At(b, s) : s \in {x \in Slots(b) : x[1] = side /\ At(b, x).id = id}}

\* The levels right after trade i: those before the next trade, or, for the
\* last trade, those the call returned with.
AfterTrade(i) == IF i < Len(trades) THEN log[i + 1] ELSE Book

\* One leg of trade i is the record of an order held on this side before the
\* trade: its id, its own price, the trade's quantity; the order is left with
\* its remainder less that quantity, or is gone when nothing is left (or when
\* the closing FOK cleanup took it).
LegOfOrder(i, leg, side, q) ==
    \E o \in Held(log[i], side, leg.orderId) :
        /\ leg = [orderId |-> o.id, price |-> o.price, quantity |-> q]
        /\ q <= o.remainingQuantity
        /\ LET after == Held(AfterTrade(i), side, o.id)
           IN  /\ \A a \in after : a = [o EXCEPT !.remainingQuantity = @ - q]
               /\ after = {} <=> \/ o.remainingQuantity = q
                                 \/ i = Len(trades) /\ o.type = "FOK"

\* C19: every trade returned has a bid leg and an ask leg with the id and the
\* own limit price of a bid and of an ask order, the same quantity q on both,
\* q the smaller of the two remaining quantities before the trade, and both
\* orders' remaining quantities are lowered by exactly q.
C19_TradeRecord ==
    Running =>
        /\ Len(log) = Len(trades)
        /\ \A i \in 1..Len(trades) :
              LET q == trades[i].bid.quantity
              IN  /\ trades[i].ask.quantity = q
                  /\ q > 0
                  /\ LegOfOrder(i, trades[i].bid, "BUY", q)
                  /\ LegOfOrder(i, trades[i].ask, "SELL", q)
                  /\ \E B \in Held(log[i], "BUY", trades[i].bid.orderId) :
                     \E A \in Held(log[i], "SELL", trades[i].ask.orderId) :
                        q = IF A.remainingQuantity < B.remainingQuantity
                            THEN A.remainingQuantity ELSE B.remainingQuantity

\* A trade between a bid and an ask at different limit prices that leaves
\* one of the two with a remainder.
C19_Witness ==
    /\ Running
    /\ \E i \in 1..Len(trades) :
          /\ trades[i].bid.price > trades[i].ask.price
          /\ \E B \in Held(log[i], "BUY", trades[i].bid.orderId) :
             \E A \in Held(log[i], "SELL", trades[i].ask.orderId) :
                A.remainingQuantity # B.remainingQuantity

\* Q_initial - Q_remaining - cancelled_quantity of one order is what was
\* filled of it.  What a call adds to that, for an order that was resting:
\* nothing if the call cancels it (cancel, or the cancel half of amend: its
\* remainder becomes cancelled quantity); else what its remainder went down
\* by, all of it if the order left the book (only a filled order is popped).
FilledOfResting(id) ==
    LET was == prev.orders[id].order_.remainingQuantity
    IN  IF (IsCancel \/ IsAmend) /\ lastOp.id = id THEN 0
        ELSE IF id \in DOMAIN orders THEN was - orders[id].order_.remainingQuantity
        ELSE was

\* The book the accepted instance is matched in, before the FOK cleanup
\* cancels what is left of it: matching does not read the order type, so it
\* is the book the call returns for the same order as GTC.
BeforeCleanup ==
    IF IsSubmit
    THEN addOrder(prev, Order(lastOp.id, lastOp.side, "GTC", lastOp.price, lastOp.quantity))
    ELSE Book

\* What the call filled of the instance it accepted; a submit that is
\* rejected (duplicate id, FOK preflight) fills nothing, its whole quantity
\* is cancelled quantity, and so is the remainder the FOK cleanup discards.
FilledOfAccepted ==
    IF Accepted = {} THEN 0
    ELSE IF IsSubmit /\ lastOp.type = "FOK" /\ ~canMatch(prev, lastOp.side, lastOp.price) THEN 0
    ELSE LET m == BeforeCleanup
         IN  IF lastOp.id \in DOMAIN m.orders
             THEN lastOp.quantity - m.orders[lastOp.id].order_.remainingQuantity
             ELSE lastOp.quantity

RECURSIVE SumFilledOfResting(_)
SumFilledOfResting(ids) ==
    IF ids = {} THEN 0
    ELSE LET id == CHOOSE x \in ids : TRUE
         IN  FilledOfResting(id) + SumFilledOfResting(ids \ {id})

\* What the call adds to the sum of Q_initial - Q_remaining -
\* cancelled_quantity over all orders ever submitted.
FilledInCall == FilledOfAccepted + SumFilledOfResting(DOMAIN prev.orders)

\* C20 as stated: the traded quantity of the trades of every call is what the
\* call adds to the sum of filled quantity over all orders (so that the two
\* sums, both zero at the start, are equal after any sequence of calls).
C20_ConservationAsStated == Running => SumTraded(trades) = FilledInCall

\* C20 amended: every trade fills a bid order and an ask order by its
\* quantity, so twice the traded quantity of the trades of every call is what
\* the call adds to the sum of filled quantity over all orders.
C20_ConservationBothLegs == Running => 2 * SumTraded(trades) = FilledInCall

\* A call that returned two trades.
C20_Witness == Running /\ Len(trades) = 2

\* A FOK order that traded part of its quantity; the cleanup discarded the rest.
C20_WitnessFokCleanup ==
    /\ Running /\ IsFokSubmit
    /\ trades # <<>>
    /\ SumTraded(trades) < lastOp.quantity

\* C27: no call of submit, cancel or amend with valid parameters throws:
\* Order::fill is never asked for more than the order has left, and
\* cancelOrder, called directly, by amend or by the FOK cleanup, always finds
\* the level of the order it removes.
C27_NeverThrows == (IsSubmit \/ IsCancel \/ IsAmend) => status # "threw"

\* A FOK order traded (fill was called on both orders) and the FOK cleanup
\* then cancelled what was left of it, its level being looked up with at().
C27_Witness ==
    /\ Running /\ IsFokSubmit
    /\ Len(trades) >= 1
    /\ lastOp.quantity - SumTraded(trades) >= 1
    /\ lastOp.id \notin DOMAIN prev.orders
    /\ ~IsInBook(Book, lastOp.id)

\* The two orders of trade i as they were before it.
BidBefore(i) == CHOOSE o \in Held(log[i], "BUY", trades[i].bid.orderId) : TRUE
AskBefore(i) == CHOOSE o \in Held(log[i], "SELL", trades[i].ask.orderId) : TRUE

\* The number of orders the trades of the call filled completely.
RECURSIVE FilledByTrades(_)
FilledByTrades(i) ==
    IF i = 0 THEN 0
    ELSE FilledByTrades(i - 1)
         + (IF BidBefore(i).remainingQuantity = trades[i].bid.quantity THEN 1 ELSE 0)
         + (IF AskBefore(i).remainingQuantity = trades[i].ask.quantity THEN 1 ELSE 0)

\* C21: every call of submit or amend returns; each of its trades has a
\* quantity above zero and fills at least one of the two head orders, which is
\* then out of its level; the trades of one call are at most the orders it
\* filled completely plus one.
C21_MatchingTerminates ==
    (IsSubmit \/ IsAmend) =>
        /\ Running
        /\ \A i \in 1..Len(trades) :
              /\ trades[i].bid.quantity > 0
              /\ \/ /\ BidBefore(i).remainingQuantity = trades[i].bid.quantity
                    /\ Held(AfterTrade(i), "BUY", trades[i].bid.orderId) = {}
                 \/ /\ AskBefore(i).remainingQuantity = trades[i].ask.quantity
                    /\ Held(AfterTrade(i), "SELL", trades[i].ask.orderId) = {}
        /\ Len(trades) <= FilledByTrades(Len(trades)) + 1

\* The same for the calls that return: the part of C21 the code keeps.
C21_BoundedWhenReturned == Running => C21_MatchingTerminates

\* C30: no step of a call reads the queue of a level after the level was
\* erased from its side map.
C30_NoStaleLevelRead == staleRead = FALSE

\* C22: every trade returned by a submit or an amend has the order the call
\* inserted as the leg of that order's side, and every other order that was
\* resting on that side is still resting, unchanged.
C22_OnlyOppositeSideConsumed ==
    (Running /\ (IsSubmit \/ IsAmend)) =>
        /\ \A i \in 1..Len(trades) :
              /\ Accepted # {}
              /\ OwnLeg(trades[i], lastOp.side).orderId = lastOp.id
              /\ RestingLeg(trades[i], lastOp.side).orderId \in DOMAIN prev.orders \ Accepted
        /\ \A id \in DOMAIN prev.orders \ Accepted :
              prev.orders[id].order_.side = lastOp.side
                 => /\ id \in DOMAIN orders
                    /\ orders[id] = prev.orders[id]
                    /\ Held(Book, lastOp.side, id) = Held(prev, lastOp.side, id)

\* The accepted order traded while another order rested on its own side.
C22_Witness ==
    /\ Running /\ (IsSubmit \/ IsAmend)
    /\ trades # <<>>
    /\ \E id \in DOMAIN prev.orders \ Accepted :
          prev.orders[id].order_.side = lastOp.side

\* The fields of an order that are fixed at construction.
Fixed(o) == [id |-> o.id, side |-> o.side, type |-> o.type, price |-> o.price,
             initialQuantity |-> o.initialQuantity]

\* C26: an order instance that rests before and after a call has the same
\* id, side, type, price and initial quantity, and a remaining quantity that
\* did not go up; no resting order has more left than its initial quantity;
\* the instance a call that returned has inserted has the request's fields.
C26_OrderImmutable ==
    /\ \A id \in (DOMAIN prev.orders \cap DOMAIN orders) \ Accepted :
          /\ Fixed(orders[id].order_) = Fixed(prev.orders[id].order_)
          /\ orders[id].order_.remainingQuantity <= prev.orders[id].order_.remainingQuantity
    /\ \A s \in Slots(Book) : At(Book, s).remainingQuantity <= At(Book, s).initialQuantity
    /\ \A id \in DOMAIN orders \cap (IF Running THEN Accepted ELSE {}) :
          Fixed(orders[id].order_) =
             [id |-> lastOp.id, side |-> lastOp.side,
              type |-> IF IsAmend THEN prev.orders[id].order_.type ELSE lastOp.type,
              price |-> lastOp.price, initialQuantity |-> lastOp.quantity]

\* A call filled part of an order that was resting and still rests.
C26_Witness ==
    /\ Running
    /\ \E id \in (DOMAIN prev.orders \cap DOMAIN orders) \ Accepted :
          orders[id].order_.remainingQuantity < prev.orders[id].order_.remainingQuantity

\* addOrder turns the order away: no trade, nothing inserted.
Rejects(b, order) ==
    LET r == addOrder(b, order)
    IN  r.trades = <<>> /\ r.bids = b.bids /\ r.asks = b.asks /\ r.orders = b.orders

\* C25: an id that was accepted once is never accepted again: a submit with
\* the id of an order that was resting and has left the book (cancelled or
\* filled by the last call), like one with the id of an order that is still
\* resting, is turned away whatever its parameters.
C25_NoIdReuse ==
    Running =>
        \A id \in DOMAIN prev.orders \cup DOMAIN orders :
        \A side \in OrderSide, price \in Prices, quantity \in Quantities :
            Rejects(Book, Order(id, side, "GTC", price, quantity))

\* The part the code keeps: the id of an order that is resting is turned away.
C25_RestingIdRejected ==
    Running =>
        \A id \in DOMAIN orders :
        \A side \in OrderSide, type \in OrderType, price \in Prices, quantity \in Quantities :
            Rejects(Book, Order(id, side, type, price, quantity))

IsSnapshot == lastOp.op = "getOrderBookLevelInfos"

\* levels lists exactly the prices of sideMap, in falling or rising order.
ListsLevels(levels, sideMap, descending) ==
    /\ Len(levels) = Cardinality(DOMAIN sideMap)
    /\ {levels[i].price : i \in 1..Len(levels)} = DOMAIN sideMap
    /\ \A i \in 1..Len(levels) - 1 :
          IF descending THEN levels[i].price > levels[i + 1].price
          ELSE levels[i].price < levels[i + 1].price

\* Each entry's quantity is the sum of the remaining quantities of its level.
SumsLevels(levels, sideMap) ==
    \A i \in 1..Len(levels) :
        levels[i].price \in DOMAIN sideMap
           => levels[i].quantity = SumRemaining(sideMap[levels[i].price])

\* C23: the snapshot lists exactly the levels of each side, bids by falling
\* and asks by rising price, each with the sum of the remaining quantities of
\* its queue, and leaves the book as it was.
C23_Snapshot ==
    IsSnapshot =>
        /\ Running /\ Book = prev /\ trades = <<>>
        /\ ListsLevels(lastOp.infos.bidlevels, bids, TRUE)
        /\ ListsLevels(lastOp.infos.asklevels, asks, FALSE)
        /\ SumsLevels(lastOp.infos.bidlevels, bids)
        /\ SumsLevels(lastOp.infos.asklevels, asks)

\* The part the code keeps: levels, order and frame are as claimed, and each
\* quantity is the sum in unsigned arithmetic of Quantity's width, a sum that
\* wraps to 0 being reported as 1.
C23_SnapshotWrapped ==
    IsSnapshot =>
        /\ Running /\ Book = prev /\ trades = <<>>
        /\ ListsLevels(lastOp.infos.bidlevels, bids, TRUE)
        /\ ListsLevels(lastOp.infos.asklevels, asks, FALSE)
        /\ \A side \in OrderSide :
              LET levels == IF side = "BUY" THEN lastOp.infos.bidlevels
                            ELSE lastOp.infos.asklevels
              IN  \A i \in 1..Len(levels) :
                     LET sum == SumRemaining(LevelOf(Book, side, levels[i].price))
                     IN  levels[i].quantity =
                            IF UInt32(sum) = 0 THEN 1 ELSE UInt32(sum)

\* ---------------------------------------------------------------- CSV driver
IsLine == lastOp.op = "processLine"

\* The line was skipped: the core was not called and the book is as it was.
LineSkipped == lastOp.call = NoCall /\ Book = prev /\ trades = <<>>

\* A CREATE or MODIFY line with all its six fields.
IsOrderLine == IsLine /\ Len(lastOp.line) = 6 /\ lastOp.line[1] \in {"CREATE", "MODIFY"}

\* C24: a line whose price is zero or negative, or whose quantity is zero,
\* fails in the constructor of Price or Quantity: the core is not called and
\* the book is not changed; every call of submit or amend carries a price and
\* a quantity above zero, and so does every resting order.
C24_InvalidParametersRejected ==
    /\ (/\ IsOrderLine
        /\ ~stollThrows(lastOp.line[5]) /\ ~stollThrows(lastOp.line[6])
        /\ \/ Int32(stoll(lastOp.line[5])) <= 0
           \/ UInt32(stoll(lastOp.line[6])) = 0)
          => LineSkipped
    /\ (IsLine /\ lastOp.call.name \in {"addOrder", "matchOrder"})
          => lastOp.call.price > 0 /\ lastOp.call.quantity > 0
    /\ \A s \in Slots(Book) : At(Book, s).price > 0 /\ At(Book, s).initialQuantity > 0

\* A well-formed line with price 0 or -1 met a book that holds orders.
C24_Witness ==
    /\ IsOrderLine /\ Running
    /\ lastOp.line[5] \in {Decimal(0), Decimal(-1)}
    /\ lastOp.line[3] \in OrderSide /\ lastOp.line[4] \in OrderType
    /\ lastOp.line[2] # NotANumber
    /\ lastOp.line[6] = Decimal(1)
    /\ orders # EmptyMap
    /\ LineSkipped

\* The same with quantity 0.
C24_WitnessQuantity ==
    /\ IsOrderLine /\ Running
    /\ lastOp.line[5] = Decimal(1)
    /\ lastOp.line[6] = Decimal(0)
    /\ lastOp.line[2] # NotANumber
    /\ orders # EmptyMap
    /\ LineSkipped

\* The decimal integers that a signed integer of Price's width cannot hold.
OutOfInt32(n) == n < -(2 ^ (PriceBits - 1)) \/ n > 2 ^ (PriceBits - 1) - 1

\* C28: a CREATE or MODIFY line whose price field is a decimal integer
\* outside the range of Price's signed integer is skipped: the core is not
\* called and the book is not changed.
C28_PriceRangeChecked ==
    (/\ IsOrderLine
     /\ lastOp.line[5].kind = "int"
     /\ OutOfInt32(lastOp.line[5].value))
        => LineSkipped

\* What the code does with such a price: it is taken modulo 2^width.
C28_PriceTruncated ==
    (/\ IsOrderLine
     /\ lastOp.line[5].kind = "int"
     /\ OutOfInt32(lastOp.line[5].value)
     /\ lastOp.call # NoCall)
        => lastOp.call.price = Int32(lastOp.line[5].value)

\* The ways in which a line does not conform to the grammar.
MissingFields(line) ==
    Len(line) < 2 \/ (Len(line) < 6 /\ line[1] # "CANCEL")
UnknownAction(line) == Len(line) >= 1 /\ line[1] \notin {"CREATE", "MODIFY", "CANCEL"}
BadSide(line) == Len(line) = 6 /\ line[1] \in {"CREATE", "MODIFY"} /\ line[3] \notin OrderSide
BadType(line) == Len(line) = 6 /\ line[1] \in {"CREATE", "MODIFY"} /\ line[4] \notin OrderType
BadNumber(line) ==
    \/ Len(line) >= 2 /\ line[2].kind # "int"
    \/ Len(line) = 6 /\ line[1] \in {"CREATE", "MODIFY"}
          /\ (line[5].kind # "int" \/ line[6].kind # "int")

Malformed(line) ==
    MissingFields(line) \/ UnknownAction(line) \/ BadSide(line) \/ BadType(line)
        \/ BadNumber(line)

\* C29: a line that does not conform to the grammar is skipped, the core is
\* not called, the book is not changed, and the next line is processed.
C29_MalformedSkipped ==
    (IsLine /\ Malformed(lastOp.line)) => (LineSkipped /\ Running /\ ENABLED NextCommand)

\* The part the code keeps: lines with missing fields, an unknown action or a
\* field with no number in it are skipped.
C29_SkippedByCode ==
    (IsLine /\ LET line == lastOp.line
               IN  \/ MissingFields(line)
                   \/ UnknownAction(line)
                   \/ Len(line) >= 2 /\ line[2].kind = "junk"
                   \/ IsOrderLine /\ (line[5].kind = "junk" \/ line[6].kind = "junk"))
        => (LineSkipped /\ Running)

\* The best price of the other side can be taken at this limit.
BestCrossable(b, side, limit) ==
    IF side = "BUY"
    THEN b.asks # EmptyMap /\ \A p \in DOMAIN b.asks : \E q \in DOMAIN b.asks : q <= p /\ q <= limit
    ELSE b.bids # EmptyMap /\ \A p \in DOMAIN b.bids : \E q \in DOMAIN b.bids : q >= p /\ q >= limit

C31_WitnessRejected ==
    /\ Running /\ IsFokSubmit /\ lastOp.id \notin DOMAIN prev.orders
    /\ ~BestCrossable(prev, lastOp.side, lastOp.price)
    /\ (IF lastOp.side = "BUY" THEN prev.asks ELSE prev.bids) # EmptyMap

IsFilledQuantity == lastOp.op = "getFilledQuantity"

\* C32: getFilledQuantity of a resting order, also of one that has not
\* traded, returns its initial less its remaining quantity and does not throw.
C32_FilledQuantity ==
    IsFilledQuantity =>
        /\ status # "threw"
        /\ ~lastOp.filled.throws
        /\ lastOp.filled.value = orders[lastOp.id].order_.initialQuantity
                                    - orders[lastOp.id].order_.remainingQuantity

\* The part the code keeps: the filled quantity of an order that has traded.
C32_FilledWhenTraded ==
    (/\ IsFilledQuantity
     /\ orders[lastOp.id].order_.remainingQuantity < orders[lastOp.id].order_.initialQuantity)
        => /\ Running
           /\ ~lastOp.filled.throws
           /\ lastOp.filled.value = orders[lastOp.id].order_.initialQuantity
                                       - orders[lastOp.id].order_.remainingQuantity

\* C33: the unsigned total that the snapshot computes for a level is never
\* zero, so the branch that reports Quantity(1) in its place is never taken.
C33_ZeroAggregateDead ==
    /\ \A p \in DOMAIN bids : accumulate(bids[p], 0) # 0
    /\ \A p \in DOMAIN asks : accumulate(asks[p], 0) # 0

\* What holds: the true sum of a level is above zero (no level is empty and
\* every resting order has something left); only the wrapped sum can be zero.
C33_TrueSumPositive ==
    /\ \A p \in DOMAIN bids : SumRemaining(bids[p]) > 0
    /\ \A p \in DOMAIN asks : SumRemaining(asks[p]) > 0

\* The resting orders that the trades of the call filled in part only.
PartlyFilled ==
    {id \in (DOMAIN prev.orders \cap DOMAIN orders) \ Accepted :
        orders[id].order_.remainingQuantity < prev.orders[id].order_.remainingQuantity}

\* The quantity of the trades of a sequence that name the order id.
RECURSIVE TradedOf(_, _)
TradedOf(ts, id) ==
    IF ts = <<>> THEN 0
    ELSE (IF Head(ts).bid.orderId = id \/ Head(ts).ask.orderId = id
          THEN Head(ts).bid.quantity ELSE 0) + TradedOf(Tail(ts), id)

\* The part of a level behind the order id.
RECURSIVE Behind(_, _)
Behind(l, id) ==
    IF l = <<>> THEN <<>> ELSE IF Head(l).id = id THEN Tail(l) ELSE Behind(Tail(l), id)

\* C34: a resting order of which a submit (or an amend) trades a part only is
\* still the head of its level, with what is left of it, ahead of the orders
\* that were behind it, and the next order that crosses its price trades with
\* it first.
C34_PartialFillKeepsPriority ==
    (Running /\ (IsSubmit \/ IsAmend)) =>
        \A id \in PartlyFilled :
            LET was == prev.orders[id].order_
                o == orders[id].order_
                level == LevelOf(Book, o.side, o.price)
                before == LevelOf(prev, was.side, was.price)
            IN  /\ level # <<>>
                /\ level[1] = o
                /\ o = [was EXCEPT !.remainingQuantity = @ - TradedOf(trades, id)]
                /\ Tail(level) = SelectSeq(Behind(before, id), LAMBDA y : y.id \notin Accepted)
                /\ \A x \in OrderIds \ DOMAIN orders, quantity \in Quantities :
                      LET side == IF o.side = "BUY" THEN "SELL" ELSE "BUY"
                          r == addOrder(Book, Order(x, side, "GTC", o.price, quantity))
                      IN  /\ r.trades # <<>>
                          /\ RestingLeg(r.trades[1], side).orderId = id

\* A call traded a part of the head of a level that holds a second order.
C34_Witness ==
    /\ Running /\ IsSubmit
    /\ \E id \in PartlyFilled :
          Len(LevelOf(Book, orders[id].order_.side, orders[id].order_.price)) >= 2

\* What an order has left in a book; 0 when it is not there.
RemainingIn(b, id) ==
    IF id \in DOMAIN b.orders THEN b.orders[id].order_.remainingQuantity ELSE 0

RECURSIVE SumAskLegs(_)
SumAskLegs(ts) == IF ts = <<>> THEN 0 ELSE Head(ts).ask.quantity + SumAskLegs(Tail(ts))

\* C35: every call keeps the account of every order instance: what an order
\* that was resting had left is what it has left now plus the quantity of the
\* call's trades that name it (all of it is removed, with no trade, when the
\* call cancels it or amends it away); the quantity of the instance the call
\* accepted is what it rests with, or what the FOK cleanup removed, plus the
\* quantity of the trades that name it.  The bid legs and the ask legs of
\* the call's trades add up to the same quantity.
C35_PerOrderConservation ==
    Running =>
        /\ \A id \in DOMAIN prev.orders \ Accepted :
              IF IsCancel /\ lastOp.id = id
              THEN TradedOf(trades, id) = 0 /\ RemainingIn(Book, id) = 0
              ELSE prev.orders[id].order_.remainingQuantity
                      = RemainingIn(Book, id) + TradedOf(trades, id)
        /\ \A id \in DOMAIN prev.orders \cap Accepted :
              TradedOf(trades, id) <= lastOp.quantity
        /\ (Accepted # {} /\
              ~(IsSubmit /\ lastOp.type = "FOK" /\ ~canMatch(prev, lastOp.side, lastOp.price)))
              => lastOp.quantity
                    = RemainingIn(BeforeCleanup, lastOp.id) + TradedOf(trades, lastOp.id)
        /\ (Accepted # {} /\ lastOp.id \in DOMAIN orders)
              => lastOp.quantity = RemainingIn(Book, lastOp.id) + TradedOf(trades, lastOp.id)
        /\ SumTraded(trades) = SumAskLegs(trades)

\* A call with two trades, one of which fills a resting order in part.
C35_Witness ==
    /\ Running /\ Len(trades) = 2
    /\ PartlyFilled # {}

\* C36: every trade a call returns has a positive quantity on both legs, a
\* bid-leg price no lower than its ask-leg price, and names two different
\* orders, a BUY order on the bid leg and a SELL order on the ask leg, both
\* held in the book's levels right before the trade, each of them an order
\* that was resting before the call or the one the call accepted.
C36_TradeWellFormed ==
    Running =>
        \A i \in 1..Len(trades) :
            LET t == trades[i]
            IN  /\ t.bid.quantity > 0 /\ t.ask.quantity > 0
                /\ t.bid.price >= t.ask.price
                /\ t.bid.orderId # t.ask.orderId
                /\ \E o \in Held(log[i], "BUY", t.bid.orderId) :
                      o.side = "BUY" /\ o.price = t.bid.price /\ o.remainingQuantity > 0
                /\ \E o \in Held(log[i], "SELL", t.ask.orderId) :
                      o.side = "SELL" /\ o.price = t.ask.price /\ o.remainingQuantity > 0
                /\ {t.bid.orderId, t.ask.orderId} \subseteq DOMAIN prev.orders \cup Accepted

\* A call whose trade is at two different prices.
C36_Witness ==
    /\ Running /\ trades # <<>>
    /\ \E i \in 1..Len(trades) : trades[i].bid.price > trades[i].ask.price

\* C37: every resting order is GTC, so an amend of a resting order is never
\* turned away by the FOK test of the re-submission: when the call returns,
\* either the order rests, in the levels and in the index, as a GTC order
\* with the new side and price and with the new quantity less the quantity
\* of the returned trades, which all name it, or the returned trades add up
\* to the new quantity and the order is nowhere in the book.
C37_AmendNeverDrops ==
    /\ \A id \in DOMAIN orders : orders[id].order_.type = "GTC"
    /\ (Running /\ IsAmendOfResting) =>
          LET id == lastOp.id
              new == toOrderPointer(lastOp, "GTC")
          IN  /\ ~Rejects(cancelOrder(prev, id), new)
              /\ TradedOf(trades, id) = SumTraded(trades)
              /\ \/ /\ id \in DOMAIN orders
                    /\ orders[id].order_ =
                          [new EXCEPT !.remainingQuantity = @ - SumTraded(trades)]
                    /\ orders[id].order_.remainingQuantity >= 1
                    /\ Held(Book, lastOp.side, id) = {orders[id].order_}
                 \/ /\ ~IsInBook(Book, id)
                    /\ SumTraded(trades) = lastOp.quantity

\* An amend to a price that cannot trade, carrying FOK in the request.
C37_Witness ==
    /\ Running /\ IsAmendOfResting
    /\ lastOp.type = "FOK"
    /\ ~canMatch(cancelOrder(prev, lastOp.id), lastOp.side, lastOp.price)
    /\ trades = <<>>
    /\ lastOp.id \in DOMAIN orders
    /\ (lastOp.side # prev.orders[lastOp.id].order_.side
          \/ lastOp.price # prev.orders[lastOp.id].order_.price)

\* addOrder of this order and then cancelOrder of its id give back the book.
RoundTrip(b, order) ==
    LET r == addOrder(b, order)
        c == cancelOrder([bids |-> r.bids, asks |-> r.asks, orders |-> r.orders], order.id)
    IN  (r.trades = <<>> /\ ~Threw(r) /\ ~r.staleRead)
            => /\ ~Threw(c)
               /\ c.bids = b.bids /\ c.asks = b.asks /\ c.orders = b.orders

\* C38: in every reachable book, for every GTC order whose id is not
\* resting and whose submit returns no trades, the submit followed by the
\* cancel of the id gives back the same levels with the same queues in the
\* same order and the same index; after such a submit has been made, the
\* cancel of its id gives back the book the submit was made on.
C38_SubmitCancelRoundTrip ==
    /\ status # "crashed" =>
          \A id \in OrderIds \ DOMAIN orders, side \in OrderSide,
             price \in Prices, quantity \in Quantities :
              RoundTrip(Book, Order(id, side, "GTC", price, quantity))
    /\ (Running /\ IsGtcSubmit /\ lastOp.id \notin DOMAIN prev.orders /\ trades = <<>>)
          => /\ lastOp.id \in DOMAIN orders
             /\ cancelOrder(Book, lastOp.id) = prev

\* A GTC order that has just joined, without a trade, a level that held an
\* order already, beside another level of its side.
C38_Witness ==
    /\ Running /\ IsGtcSubmit /\ lastOp.id \notin DOMAIN prev.orders
    /\ trades = <<>>
    /\ Len(LevelOf(Book, lastOp.side, lastOp.price)) >= 2
    /\ Cardinality(DOMAIN (IF lastOp.side = "BUY" THEN bids ELSE asks)) >= 2
    /\ cancelOrder(Book, lastOp.id) = prev

\* The book a call returned, without the trades.
BookOf(r) == [bids |-> r.bids, asks |-> r.asks, orders |-> r.orders]

\* The book when the matching loop ends for an order that was inserted,
\* before the FOK cleanup.
AfterMatching(b, order) ==
    LET sideMap == IF order.side = "BUY" THEN b.bids ELSE b.asks
        level == LevelOf(b, order.side, order.price)
        with == IF order.price \in DOMAIN sideMap
                THEN [sideMap EXCEPT ![order.price] = Append(level, order)]
                ELSE MapPut(sideMap, order.price, <<order>>)
    IN  MatchLoop([bids |-> IF order.side = "BUY" THEN with ELSE b.bids,
                   asks |-> IF order.side = "BUY" THEN b.asks ELSE with,
                   orders |-> MapPut(b.orders, order.id, OrderEntry(order)),
                   trades |-> <<>>, log |-> <<>>, staleRead |-> FALSE,
                   exception |-> FALSE])

\* The order the last submit was made with.
Submitted == Order(lastOp.id, lastOp.side, lastOp.type, lastOp.price, lastOp.quantity)

\* C39: on every book a call is made on, the class of main.cpp and the
\* class of orderbook.cpp answer every submit, cancel and amend alike: the
\* same trades
\* in the same order, the same levels, queues and index, the same exception
\* and the same stale level read.  In particular the front orders main.cpp
\* inspects after matching are the unfilled FOK orders the scan of
\* orderbook.cpp finds: no level is empty, no FOK order is resting when a
\* call begins, and the one the call accepted is the front of its side's
\* best level.
C39_MainEquivalent ==
    /\ \A p \in DOMAIN bids : bids[p] # <<>>
    /\ \A p \in DOMAIN asks : asks[p] # <<>>
    /\ lastOp = NoOp =>
          /\ \A id \in OrderIds, side \in OrderSide, type \in OrderType,
                price \in Prices, quantity \in Quantities :
                /\ mainAddOrder(Book, Order(id, side, type, price, quantity))
                      = addOrder(Book, Order(id, side, type, price, quantity))
                /\ mainMatchOrder(Book, OrderModifier(id, side, type, price, quantity))
                      = matchOrder(Book, OrderModifier(id, side, type, price, quantity))
          /\ \A id \in OrderIds : mainCancelOrder(Book, id) = cancelOrder(Book, id)
    /\ (Running /\ IsSubmit) =>
          LET r == mainAddOrder(prev, Submitted)
          IN  r.trades = trades /\ BookOf(r) = Book /\ r.log = log
    /\ (Running /\ IsSubmit /\ lastOp.id \notin DOMAIN prev.orders
          /\ (lastOp.type = "FOK" => canMatch(prev, lastOp.side, lastOp.price))) =>
          LET m == AfterMatching(prev, Submitted)
              found == collectFokOrders(m.bids, TRUE) \o collectFokOrders(m.asks, FALSE)
          IN  /\ mainFokOrdersToCancel(m) = found
              /\ found = IF lastOp.type = "FOK" /\ SumTraded(trades) < lastOp.quantity
                         THEN <<lastOp.id>> ELSE <<>>
              /\ BookOf(CancelAll(m, found)) = Book

\* A FOK order that traded in part and was removed by the cleanup, while
\* another order rests on its side.
C39_Witness ==
    /\ Running /\ IsFokSubmit
    /\ trades # <<>>
    /\ SumTraded(trades) < lastOp.quantity
    /\ mainFokOrdersToCancel(AfterMatching(prev, Submitted)) = <<lastOp.id>>
    /\ (IF lastOp.side = "BUY" THEN bids ELSE asks) # EmptyMap
    /\ BookOf(mainAddOrder(prev, Submitted)) = Book

====
